---- MODULE Spec2Model ----
(***************************************************************************)
(* Region reclamation core of libscm (src/regions.c, src/arch.h):          *)
(* recycle_region, expire_reg_descriptor_if_exists and the atomic          *)
(* primitives they rest on.                                                *)
(*                                                                         *)
(* Pages are numbered 1..NPages, regions 1..NRegions; 0 is NULL.           *)
(***************************************************************************)
EXTENDS Integers, Sequences, FiniteSets, TLC

\* ------------------------------------------------------------- bounds
NPages == 4
NRegions == 1
MaxDc == 2
MaxTime == 1
NThreads == 2

\* ------------------------------------------- build-time configuration
\* Pool capacity (scaled down), page size and payload size in address units.
SCM_REGION_PAGE_FREELIST_SIZE == 2
REGION_PAGE_SIZE == 8
REGION_PAGE_PAYLOAD_SIZE == 6

\* unsigned long arithmetic wraps; the modulus is scaled to TLC's integers.
ULONG_MODULUS == 65536

NULL == 0
Pages == 1..NPages
Regions == 1..NRegions
Threads == 1..NThreads

VARIABLES
    nextPage,                       \* region_page_t.nextPage, per page
    used_memory,                    \* region_page_t.used_memory, per page
    firstPage,                      \* region_t.firstPage, per region
    lastPage,                       \* region_t.lastPage
    number_of_region_pages,         \* region_t.number_of_region_pages
    next_free_address,              \* region_t.next_free_address
    last_address_in_last_page,      \* region_t.last_address_in_last_page
    age,                            \* region_t.age
    dc,                             \* region_t.dc
    current_time,                   \* descriptor_root->current_time
    region_page_pool,               \* descriptor_root->region_page_pool
    number_of_pooled_region_pages,  \* descriptor_root->number_of_pooled_region_pages
    os,                             \* pages held by the underlying allocator
    freed,                          \* pages handed to __real_free by the driver call just made
    fault,                          \* a NULL or freed page was dereferenced
    aborted,                        \* exit(-1) was reached (checked build)
    check_conditions,               \* the build defines SCM_CHECK_CONDITIONS
    expired,                        \* entries of the expired-descriptor source, per region
    hist,                           \* the last driver call: its input, result and pre-state
    pc,                             \* per thread: position inside the driver
    local,                          \* per thread: expired_region, legacy_pages, count
    obs,                            \* per region: counters observed across threads
    drain                           \* the caller that empties the source: its tally

heapvars == <<nextPage, used_memory, firstPage, lastPage, number_of_region_pages,
              next_free_address, last_address_in_last_page, age, dc, current_time,
              region_page_pool, number_of_pooled_region_pages, os, freed, fault,
              aborted>>
vars == <<nextPage, used_memory, firstPage, lastPage, number_of_region_pages,
          next_free_address, last_address_in_last_page, age, dc, current_time,
          region_page_pool, number_of_pooled_region_pages, os, freed, fault,
          aborted, check_conditions, expired, hist, pc, local, obs, drain>>

\* The program state as one record, so that the functions of regions.c are
\* operators from state to state.
St ==
    [nextPage |-> nextPage, used_memory |-> used_memory, firstPage |-> firstPage,
     lastPage |-> lastPage, number_of_region_pages |-> number_of_region_pages,
     next_free_address |-> next_free_address,
     last_address_in_last_page |-> last_address_in_last_page,
     age |-> age, dc |-> dc, current_time |-> current_time,
     region_page_pool |-> region_page_pool,
     number_of_pooled_region_pages |-> number_of_pooled_region_pages,
     os |-> os, freed |-> freed, fault |-> fault, aborted |-> aborted]

SetSt(s) ==
    /\ nextPage' = s.nextPage
    /\ used_memory' = s.used_memory
    /\ firstPage' = s.firstPage
    /\ lastPage' = s.lastPage
    /\ number_of_region_pages' = s.number_of_region_pages
    /\ next_free_address' = s.next_free_address
    /\ last_address_in_last_page' = s.last_address_in_last_page
    /\ age' = s.age
    /\ dc' = s.dc
    /\ current_time' = s.current_time
    /\ region_page_pool' = s.region_page_pool
    /\ number_of_pooled_region_pages' = s.number_of_pooled_region_pages
    /\ os' = s.os
    /\ freed' = s.freed
    /\ fault' = s.fault
    /\ aborted' = s.aborted

\* ------------------------------------------------------ page geometry
\* Address of page p, and of its payload (&p->memory): the header holds
\* nextPage and used_memory.  Pages are separate blocks of the underlying
\* allocator, a page size apart from each other.
PageStride == 2 * REGION_PAGE_SIZE
PageAddr(p) == p * PageStride
MemoryAddr(p) == PageAddr(p) + (REGION_PAGE_SIZE - REGION_PAGE_PAYLOAD_SIZE)

\* The pages reachable from p through np, in order (cut at NPages + 1 links,
\* so a cyclic chain shows as a chain longer than the number of pages).
RECURSIVE ChainFrom(_, _, _)
ChainFrom(np, p, fuel) ==
    IF p = NULL \/ fuel = 0 THEN <<>>
    ELSE <<p>> \o ChainFrom(np, np[p], fuel - 1)

Chain(np, p) == ChainFrom(np, p, NPages + 1)

SeqSet(q) == {q[i] : i \in 1..Len(q)}

\* ------------------------------------------------- pages up to renaming
\* The code never compares two pages or their addresses except for equality,
\* so a state and its image under a renaming of the pages behave alike.  The
\* sequential system keeps one state of each such class: pages are numbered
\* in the order region 1's chain, region 2's chain, ..., the pool, and then
\* the pages of the underlying allocator.  A state in which the pages are not
\* partitioned that way is left as it is.
RECURSIVE SortedSeq(_)
SortedSeq(S) ==
    IF S = {} THEN <<>>
    ELSE LET m == CHOOSE x \in S : \A y \in S : x <= y
         IN  <<m>> \o SortedSeq(S \ {m})

RECURSIVE RegionChains(_, _)
RegionChains(s, n) ==
    IF n = 0 THEN <<>>
    ELSE RegionChains(s, n - 1) \o Chain(s.nextPage, s.firstPage[n])

PageOrder(s) ==
    LET o == RegionChains(s, NRegions) \o Chain(s.nextPage, s.region_page_pool)
                \o SortedSeq(s.os)
    IN  IF Len(o) = NPages /\ SeqSet(o) = Pages THEN o
        ELSE [i \in 1..NPages |-> i]

\* The new number of page p under the order o.
Renamed(o, p) == IF p = NULL THEN NULL ELSE CHOOSE i \in 1..NPages : o[i] = p

RenamedAddr(o, a) == PageAddr(Renamed(o, a \div PageStride)) + (a % PageStride)

Rename(o, s) ==
    [s EXCEPT !.nextPage = [i \in Pages |-> Renamed(o, s.nextPage[o[i]])],
              !.used_memory = [i \in Pages |-> s.used_memory[o[i]]],
              !.firstPage = [r \in Regions |-> Renamed(o, s.firstPage[r])],
              !.lastPage = [r \in Regions |-> Renamed(o, s.lastPage[r])],
              !.next_free_address =
                  [r \in Regions |-> RenamedAddr(o, s.next_free_address[r])],
              !.last_address_in_last_page =
                  [r \in Regions |-> RenamedAddr(o, s.last_address_in_last_page[r])],
              !.region_page_pool = Renamed(o, s.region_page_pool),
              !.os = {Renamed(o, p) : p \in s.os},
              !.freed = [i \in 1..Len(s.freed) |-> Renamed(o, s.freed[i])]]

Canon(s) == Rename(PageOrder(s), s)

\* ------------------------------------------------ src/arch.h atomics
\* Mutant: the value after the addition is returned (add-and-fetch).
atomic_int_add_and_fetch(v, val) == [value |-> v + val, result |-> v + val]

\* lock; xaddl: adds val to the counter and returns the value it held before.
\* Counters stay far inside the 32-bit range here (guards cap dc at MaxDc).
atomic_int_exchange_and_add(v, val) == [value |-> v + val, result |-> v]

\* Mutant: tests the value before the decrement against 0 instead of 1.
atomic_int_dec_and_test_zero(v) == atomic_int_exchange_and_add(v, -1).result = 0

atomic_int_dec_and_test(v) == atomic_int_exchange_and_add(v, -1).result = 1

\* lock; addl: adds val, returns nothing.
atomic_int_add(v, val) == v + val

atomic_int_inc(v) == atomic_int_add(v, 1)

\* ------------------------------------------ src/regions.c recycle_region
\* A dereference of page p: NULL and pages already handed back are invalid.
BadPage(s, p) == p = NULL \/ p \in s.os

\* __real_free(p): the page goes back to the underlying allocator; what it
\* held is no longer program state.
real_free(s, p) ==
    [s EXCEPT !.os = @ \cup {p},
              !.freed = Append(@, p),
              !.fault = @ \/ p \in s.os,
              !.nextPage[p] = NULL,
              !.used_memory[p] = 0]

\* exit(-1)
Abort(s) == [s EXCEPT !.aborted = TRUE]

\* Mutant: the test of dc (lines 70-73) is missing.
recycle_precheck_no_dc(s, r) ==
    \/ r = NULL
    \/ s.firstPage[r] = NULL
    \/ s.lastPage[r] = NULL

\* Lines 62-73 (SCM_CHECK_CONDITIONS): TRUE when the pre-conditions abort.
recycle_precheck_fails(s, r) ==
    \/ r = NULL
    \/ s.firstPage[r] = NULL
    \/ s.lastPage[r] = NULL
    \/ s.dc[r] # 0

\* Mutant: the single-page case does not return early and falls through to
\* the pooling code with nothing to pool.
recycle_select_fresh_no_return(s, r, checked) ==
    LET fp == s.firstPage[r]
        legacy == s.nextPage[fp]
        s1 == [s EXCEPT !.nextPage[fp] = NULL,
                        !.used_memory[fp] = 0,
                        !.last_address_in_last_page[r] =
                            MemoryAddr(fp) + REGION_PAGE_PAYLOAD_SIZE - 1]
    IN  [s |-> s1, done |-> FALSE, legacy_pages |-> legacy,
         n |-> (s1.number_of_region_pages[r] - 1) % ULONG_MODULUS]

\* Mutant: the first page is not cleared (the memset of line 86 is missing),
\* so it keeps its link to the pages that are recycled.
recycle_select_fresh_no_memset(s, r, checked) ==
    LET fp == s.firstPage[r]
        legacy == s.nextPage[fp]
        s1 == [s EXCEPT !.last_address_in_last_page[r] =
                            MemoryAddr(fp) + REGION_PAGE_PAYLOAD_SIZE - 1]
    IN  IF legacy = NULL
        THEN [s |-> [s1 EXCEPT !.dc[r] = 0], done |-> TRUE,
              legacy_pages |-> NULL, n |-> 0]
        ELSE [s |-> s1, done |-> FALSE, legacy_pages |-> legacy,
              n |-> (s1.number_of_region_pages[r] - 1) % ULONG_MODULUS]

\* Lines 81-136: the region was used in the current epoch; keep the first page.
recycle_select_fresh(s, r, checked) ==
    LET fp == s.firstPage[r] IN
    IF BadPage(s, fp)
    THEN [s |-> [s EXCEPT !.fault = TRUE], done |-> TRUE,
          legacy_pages |-> NULL, n |-> 0]
    ELSE
    LET legacy == s.nextPage[fp]
        s1 == [s EXCEPT !.nextPage[fp] = NULL,
                        !.used_memory[fp] = 0,
                        !.last_address_in_last_page[r] =
                            MemoryAddr(fp) + REGION_PAGE_PAYLOAD_SIZE - 1]
    IN  IF legacy = NULL
        THEN IF checked /\ (\/ s1.number_of_region_pages[r] # 1
                            \/ s1.firstPage[r] # s1.lastPage[r])
             THEN [s |-> Abort(s1), done |-> TRUE, legacy_pages |-> NULL, n |-> 0]
             ELSE [s |-> [s1 EXCEPT !.dc[r] = 0], done |-> TRUE,
                   legacy_pages |-> NULL, n |-> 0]
        ELSE IF checked /\ s1.number_of_region_pages[r] <= 1
             THEN [s |-> Abort(s1), done |-> TRUE, legacy_pages |-> NULL, n |-> 0]
             ELSE [s |-> s1, done |-> FALSE, legacy_pages |-> legacy,
                   n |-> (s1.number_of_region_pages[r] - 1) % ULONG_MODULUS]

\* Lines 138-187: the region is a zombie; recycle the first page as well.
recycle_select_zombie(s, r, checked) ==
    LET legacy == s.firstPage[r] IN
    IF legacy = NULL
    THEN IF checked /\ (\/ s.number_of_region_pages[r] # 0
                        \/ s.firstPage[r] # s.lastPage[r])
         THEN [s |-> Abort(s), done |-> TRUE, legacy_pages |-> NULL, n |-> 0]
         ELSE [s |-> [s EXCEPT !.dc[r] = 0], done |-> TRUE,
               legacy_pages |-> NULL, n |-> 0]
    ELSE IF checked /\ s.number_of_region_pages[r] = 0
         THEN [s |-> Abort(s), done |-> TRUE, legacy_pages |-> NULL, n |-> 0]
         ELSE [s |-> s, done |-> FALSE, legacy_pages |-> legacy,
               n |-> s.number_of_region_pages[r]]

\* Lines 81-187: classify the region and select the pages to recycle.
recycle_select(s, r, checked) ==
    IF s.age[r] = s.current_time
    THEN recycle_select_fresh(s, r, checked)
    ELSE recycle_select_zombie(s, r, checked)

\* Lines 232-243: hand pages back, from the head of the chain, while the
\* rest does not fit into the pool.
RECURSIVE free_loop(_, _, _, _)
free_loop(s, page2free, n, pooled) ==
    IF page2free # NULL /\ pooled + n > SCM_REGION_PAGE_FREELIST_SIZE /\ ~s.fault
    THEN IF BadPage(s, page2free)
         THEN [s |-> [s EXCEPT !.fault = TRUE], page2free |-> page2free, n |-> n]
         ELSE free_loop(real_free(s, page2free), s.nextPage[page2free],
                        (n - 1) % ULONG_MODULUS, pooled)
    ELSE [s |-> s, page2free |-> page2free, n |-> n]

\* Mutant: the chain is prepended but the pooled count is not raised (the
\* store of lines 222-223 is missing).
pool_fits_stale_count(s, r, legacy_pages, n, pooled) ==
    LET first_in_pool == s.region_page_pool
        last_page == s.lastPage[r]
    IN  [s EXCEPT !.nextPage[last_page] = first_in_pool,
                  !.region_page_pool = legacy_pages]

\* Lines 217-223: everything fits; prepend the chain to the pool.
pool_fits(s, r, legacy_pages, n, pooled) ==
    LET first_in_pool == s.region_page_pool
        last_page == s.lastPage[r]
    IN  IF BadPage(s, last_page)
        THEN [s EXCEPT !.fault = TRUE]
        ELSE [s EXCEPT !.nextPage[last_page] = first_in_pool,
                       !.region_page_pool = legacy_pages,
                       !.number_of_pooled_region_pages = pooled + n]

\* Mutant: the count written at line 256 stands; the store of lines 265-266
\* is missing.
pool_overflow_first_count(s, r, legacy_pages, n, pooled) ==
    LET lp == free_loop(s, legacy_pages, n, pooled)
        s1 == lp.s
        last_page == s1.lastPage[r]
    IN  IF lp.page2free # NULL /\ pooled + lp.n <= SCM_REGION_PAGE_FREELIST_SIZE
           /\ last_page # NULL
        THEN [s1 EXCEPT !.nextPage[last_page] = s1.region_page_pool,
                        !.region_page_pool = lp.page2free,
                        !.number_of_pooled_region_pages = lp.n - 1]
        ELSE s1

\* Mutant: the tail that is pooled is not linked to the pages already in
\* the pool (the store of line 254 is missing).
pool_overflow_drops_pool(s, r, legacy_pages, n, pooled) ==
    LET lp == free_loop(s, legacy_pages, n, pooled)
        s1 == lp.s
        last_page == s1.lastPage[r]
    IN  IF lp.page2free # NULL /\ pooled + lp.n <= SCM_REGION_PAGE_FREELIST_SIZE
           /\ last_page # NULL
        THEN [s1 EXCEPT !.region_page_pool = lp.page2free,
                        !.number_of_pooled_region_pages = pooled + lp.n]
        ELSE [s1 EXCEPT !.number_of_pooled_region_pages = pooled + lp.n]

\* Lines 230-266: free from the head, then pool what is left.
pool_overflow(s, r, legacy_pages, n, pooled) ==
    LET lp == free_loop(s, legacy_pages, n, pooled)
        s1 == lp.s
        first_in_pool == s1.region_page_pool
        last_page == s1.lastPage[r]
        s2 == IF /\ lp.page2free # NULL
                 /\ pooled + lp.n <= SCM_REGION_PAGE_FREELIST_SIZE
                 /\ last_page # NULL
              THEN IF last_page \in s1.os
                   THEN [s1 EXCEPT !.fault = TRUE]
                   ELSE [s1 EXCEPT !.nextPage[last_page] = first_in_pool,
                                   !.region_page_pool = lp.page2free,
                                   \* line 256: overwritten at line 265
                                   !.number_of_pooled_region_pages = lp.n - 1]
              ELSE s1
    IN  IF s1.fault THEN s1
        ELSE [s2 EXCEPT !.number_of_pooled_region_pages = pooled + lp.n]

\* Mutant: the capacity test is missing; everything is pooled.
recycle_pool_unbounded(s, r, legacy_pages, n) ==
    pool_fits(s, r, legacy_pages, n, s.number_of_pooled_region_pages)

\* Lines 189-267: pool the selected pages, or free those that do not fit.
recycle_pool(s, r, legacy_pages, n) ==
    LET pooled == s.number_of_pooled_region_pages IN
    IF pooled + n <= SCM_REGION_PAGE_FREELIST_SIZE
    THEN pool_fits(s, r, legacy_pages, n, pooled)
    ELSE pool_overflow(s, r, legacy_pages, n, pooled)

\* Mutant: lastPage is not reset to the first page.
reanchor_keeps_last(s, r) ==
    [s EXCEPT !.number_of_region_pages[r] = 1,
              !.last_address_in_last_page[r] =
                  MemoryAddr(s.lastPage[r]) + REGION_PAGE_PAYLOAD_SIZE,
              !.next_free_address[r] = MemoryAddr(s.lastPage[r])]

\* Lines 269-273: back to a single page, cursor at the start of its payload.
reanchor(s, r) ==
    LET lp == s.firstPage[r] IN
    [s EXCEPT !.number_of_region_pages[r] = 1,
              !.lastPage[r] = lp,
              !.last_address_in_last_page[r] = MemoryAddr(lp) + REGION_PAGE_PAYLOAD_SIZE,
              !.next_free_address[r] = MemoryAddr(lp)]

\* Mutant: the zombie's page count is cleared but not its page pointers.
empty_zombie_keeps_pages(s, r) ==
    IF s.age[r] # s.current_time
    THEN [s EXCEPT !.number_of_region_pages[r] = 0]
    ELSE s

\* Lines 296-299: a zombie keeps no page at all.
empty_zombie(s, r) ==
    IF s.age[r] # s.current_time
    THEN [s EXCEPT !.number_of_region_pages[r] = 0,
                   !.lastPage[r] = NULL,
                   !.firstPage[r] = NULL]
    ELSE s

\* Lines 269-321.
recycle_reanchor(s, r) ==
    IF s.fault THEN s ELSE empty_zombie(reanchor(s, r), r)

\* Lines 55-322.
recycle_region(s, r, checked) ==
    IF checked /\ recycle_precheck_fails(s, r)
    THEN Abort(s)
    ELSE LET sel == recycle_select(s, r, checked) IN
         IF sel.done THEN sel.s
         ELSE recycle_reanchor(recycle_pool(sel.s, r, sel.legacy_pages, sel.n), r)

\* ------------------- src/regions.c expire_reg_descriptor_if_exists
\* Mutant: the result of the test is ignored; every release recycles.
release_reference_untested(s, e) ==
    [s |-> [s EXCEPT !.dc[e] = atomic_int_exchange_and_add(s.dc[e], -1).value],
     zero |-> TRUE]

\* Line 342: the atomic decrement of the region's dc and its test.
release_reference(s, e) ==
    [s |-> [s EXCEPT !.dc[e] = atomic_int_exchange_and_add(s.dc[e], -1).value],
     zero |-> atomic_int_dec_and_test(s.dc[e])]

\* Mutant: the driver reports an entry processed although the source was empty.
expire_always_one(s, e, checked) ==
    IF e # NULL
    THEN LET rel == release_reference(s, e) IN
         IF rel.zero
         THEN [s |-> recycle_region(rel.s, e, checked), ret |-> 1, recycled |-> TRUE]
         ELSE [s |-> rel.s, ret |-> 1, recycled |-> FALSE]
    ELSE [s |-> s, ret |-> 1, recycled |-> FALSE]

\* e is what get_expired_mem(list) yields: a region, or NULL.  The result is
\* the new state, the return value, and whether recycle_region was invoked.
expire_reg_descriptor_if_exists(s, e, checked) ==
    IF e # NULL
    THEN LET rel == release_reference(s, e) IN
         IF rel.zero
         THEN [s |-> recycle_region(rel.s, e, checked), ret |-> 1, recycled |-> TRUE]
         ELSE [s |-> rel.s, ret |-> 1, recycled |-> FALSE]
    ELSE [s |-> s, ret |-> 0, recycled |-> FALSE]

\* ------------------------------------------------------------ the system
NoHist == [op |-> "none"]
NoLocal == [region |-> NULL, legacy_pages |-> NULL, n |-> 0]
\* Per region: dc at the start, the descriptors not yet expired, the number of
\* increments, decrements and zero transitions seen, and whether a step of
\* recycle_region changed the region or the pool while dc was not 0.
NoObs == [init |-> 0, held |-> 0, incs |-> 0, decs |-> 0, zero |-> 0,
          unsafe |-> FALSE]

\* The tally of a caller that repeats the driver until it returns 0: dc and
\* the entries of the source per region when it started, the calls that
\* returned 1 and 0, and the invocations of recycle_region per region.
NoDrain == [dc0 |-> [r \in Regions |-> 0], src0 |-> [r \in Regions |-> 0],
            ones |-> 0, zeros |-> 0, recycles |-> [r \in Regions |-> 0],
            done |-> FALSE]

Running == ~fault /\ ~aborted

InitHeap ==
    /\ nextPage = [p \in Pages |-> NULL]
    /\ used_memory = [p \in Pages |-> 0]
    /\ firstPage = [r \in Regions |-> NULL]
    /\ lastPage = [r \in Regions |-> NULL]
    /\ number_of_region_pages = [r \in Regions |-> 0]
    /\ next_free_address = [r \in Regions |-> NULL]
    /\ last_address_in_last_page = [r \in Regions |-> NULL]
    /\ age = [r \in Regions |-> 0]
    /\ dc = [r \in Regions |-> 0]
    /\ current_time = 0
    /\ region_page_pool = NULL
    /\ number_of_pooled_region_pages = 0
    /\ os = Pages
    /\ freed = <<>>
    /\ fault = FALSE
    /\ aborted = FALSE
    /\ expired = [r \in Regions |-> 0]
    /\ hist = NoHist
    /\ pc = [t \in Threads |-> "idle"]
    /\ local = [t \in Threads |-> NoLocal]
    /\ obs = [r \in Regions |-> NoObs]
    /\ drain = NoDrain

Init == InitHeap /\ check_conditions = FALSE

\* The allocator takes a page from the pool when it holds one, and from the
\* underlying allocator otherwise; the page comes back zeroed.
TakePage(s, p) ==
    IF s.number_of_pooled_region_pages > 0
    THEN [s EXCEPT !.region_page_pool = s.nextPage[p],
                   !.number_of_pooled_region_pages = @ - 1,
                   !.nextPage[p] = NULL,
                   !.used_memory[p] = 0]
    ELSE [s EXCEPT !.os = @ \ {p},
                   !.nextPage[p] = NULL,
                   !.used_memory[p] = 0]

\* Pages are interchangeable: the underlying allocator hands out its
\* lowest-numbered page.
PageOnOffer(s) ==
    IF s.number_of_pooled_region_pages > 0
    THEN {s.region_page_pool} \ {NULL}
    ELSE {p \in s.os : \A q \in s.os : p <= q}

\* The allocator sets a region up for a first object: one page, the object
\* carved from its payload, stamped with the current epoch.
create_region(s, r, p) ==
    [TakePage(s, p) EXCEPT !.firstPage[r] = p,
                           !.lastPage[r] = p,
                           !.number_of_region_pages[r] = 1,
                           !.used_memory[p] = 1,
                           !.next_free_address[r] = MemoryAddr(p) + 1,
                           !.last_address_in_last_page[r] =
                               MemoryAddr(p) + REGION_PAGE_PAYLOAD_SIZE - 1,
                           !.age[r] = s.current_time]

\* The allocator appends a page for an object the last page cannot hold.
append_page(s, r, p) ==
    [TakePage(s, p) EXCEPT !.nextPage[s.lastPage[r]] = p,
                           !.lastPage[r] = p,
                           !.number_of_region_pages[r] = @ + 1,
                           !.used_memory[p] = 1,
                           !.next_free_address[r] = MemoryAddr(p) + 1,
                           !.last_address_in_last_page[r] =
                               MemoryAddr(p) + REGION_PAGE_PAYLOAD_SIZE - 1]

\* The allocator carves an object out of a last page that is still empty.
bump_allocate(s, r) ==
    [s EXCEPT !.used_memory[s.lastPage[r]] = @ + 1,
              !.next_free_address[r] = @ + 1]

\* The state as the environment sees it: the log of the last driver call is gone.
Env == [St EXCEPT !.freed = <<>>]

SeqFrame == UNCHANGED <<check_conditions, pc, local, obs, drain>>

\* The allocator scans the region table for its first unused slot.
Unused(r) == number_of_region_pages[r] = 0 /\ dc[r] = 0

CreateRegion(r) ==
    /\ Running
    /\ Unused(r) /\ \A q \in Regions : Unused(q) => r <= q
    /\ \E p \in PageOnOffer(St) : SetSt(Canon(create_region(Env, r, p)))
    /\ hist' = NoHist
    /\ UNCHANGED expired
    /\ SeqFrame

AppendPage(r) ==
    /\ Running
    /\ number_of_region_pages[r] >= 1 /\ age[r] = current_time
    /\ \E p \in PageOnOffer(St) : SetSt(Canon(append_page(Env, r, p)))
    /\ hist' = NoHist
    /\ UNCHANGED expired
    /\ SeqFrame

Allocate(r) ==
    /\ Running
    /\ number_of_region_pages[r] >= 1 /\ age[r] = current_time
    /\ next_free_address[r] = MemoryAddr(lastPage[r])
    /\ SetSt(Canon(bump_allocate(Env, r)))
    /\ hist' = NoHist
    /\ UNCHANGED expired
    /\ SeqFrame

\* The owner moves on to the next epoch.
AdvanceEpoch ==
    /\ Running
    /\ current_time < MaxTime
    /\ SetSt(Canon([Env EXCEPT !.current_time = @ + 1]))
    /\ hist' = NoHist
    /\ UNCHANGED expired
    /\ SeqFrame

\* A reference to the region escapes: a descriptor is created.
RECURSIVE SumTo(_, _)
SumTo(f, n) == IF n = 0 THEN 0 ELSE f[n] + SumTo(f, n - 1)

\* Descriptors alive in the descriptor subsystem, over all regions.
LiveDescriptors == SumTo(dc, NRegions)

Acquire(r) ==
    /\ Running
    /\ number_of_region_pages[r] >= 1 /\ LiveDescriptors < MaxDc
    /\ SetSt(Canon([Env EXCEPT !.dc[r] = atomic_int_inc(@)]))
    /\ hist' = NoHist
    /\ UNCHANGED expired
    /\ SeqFrame

\* One of the region's descriptors expires and enters the source.
DescriptorExpires(r) ==
    /\ Running
    /\ expired[r] < dc[r]
    /\ expired' = [expired EXCEPT ![r] = @ + 1]
    /\ hist' = NoHist
    /\ SetSt(Env)
    /\ SeqFrame

\* What get_expired_mem may yield: any entry of the source, NULL when empty.
SourceYields(src) ==
    IF \A r \in Regions : src[r] = 0 THEN {NULL}
    ELSE {r \in Regions : src[r] > 0}

TakeEntry(src, e) == IF e = NULL THEN src ELSE [src EXCEPT ![e] = @ - 1]

\* One call of the driver, start to return.
Expire ==
    /\ Running
    /\ \E e \in SourceYields(expired) :
         LET res == expire_reg_descriptor_if_exists(
                        Env, e, check_conditions)
             o == PageOrder(res.s)
         IN  /\ SetSt(Rename(o, res.s))
             /\ expired' = TakeEntry(expired, e)
             /\ hist' = [op |-> "expire", e |-> e, ret |-> res.ret,
                         recycled |-> res.recycled, pre |-> Rename(o, St),
                         src |-> expired]
    /\ SeqFrame

Next ==
    \/ \E r \in Regions : CreateRegion(r)
    \/ \E r \in Regions : AppendPage(r)
    \/ \E r \in Regions : Allocate(r)
    \/ AdvanceEpoch
    \/ \E r \in Regions : Acquire(r)
    \/ \E r \in Regions : DescriptorExpires(r)
    \/ Expire

Spec == Init /\ [][Next]_vars

\* -------------------------------------------------- the driver in threads
\* Several threads run the driver on the same root; each line-level step of
\* a call is one action.  The heap a run starts from is one the sequential
\* system reaches: region 1 holds pages 1..k, fresh or zombie, with N
\* descriptors alive, all of them expired; the last page may sit in the pool.
MaxStartPages == 2

StartHeap(k, zombie, pooled, N) ==
    /\ nextPage = [p \in Pages |-> IF p < k THEN p + 1 ELSE NULL]
    /\ used_memory = [p \in Pages |-> IF p <= k \/ (pooled /\ p = NPages) THEN 1 ELSE 0]
    /\ firstPage = [r \in Regions |-> IF r = 1 THEN 1 ELSE NULL]
    /\ lastPage = [r \in Regions |-> IF r = 1 THEN k ELSE NULL]
    /\ number_of_region_pages = [r \in Regions |-> IF r = 1 THEN k ELSE 0]
    /\ next_free_address = [r \in Regions |-> IF r = 1 THEN MemoryAddr(k) + 1 ELSE NULL]
    /\ last_address_in_last_page =
         [r \in Regions |-> IF r = 1 THEN MemoryAddr(k) + REGION_PAGE_PAYLOAD_SIZE - 1
                            ELSE NULL]
    /\ age = [r \in Regions |-> 0]
    /\ dc = [r \in Regions |-> IF r = 1 THEN N ELSE 0]
    /\ current_time = IF zombie THEN 1 ELSE 0
    /\ region_page_pool = IF pooled THEN NPages ELSE NULL
    /\ number_of_pooled_region_pages = IF pooled THEN 1 ELSE 0
    /\ os = {p \in Pages : p > k /\ ~(pooled /\ p = NPages)}
    /\ freed = <<>>
    /\ fault = FALSE
    /\ aborted = FALSE
    /\ expired = [r \in Regions |-> IF r = 1 THEN N ELSE 0]
    /\ hist = NoHist
    /\ pc = [t \in Threads |-> "idle"]
    /\ local = [t \in Threads |-> NoLocal]
    /\ obs = [r \in Regions |-> [NoObs EXCEPT !.init = IF r = 1 THEN N ELSE 0]]
    /\ drain = NoDrain

InitConc ==
    /\ check_conditions = FALSE
    /\ \E k \in 1..MaxStartPages, zombie \in BOOLEAN, pooled \in BOOLEAN,
          N \in 1..MaxDc :
         StartHeap(k, zombie, pooled, N)

ConcFrame == UNCHANGED <<check_conditions, hist, drain>>

\* Line 339: get_expired_mem yields an entry.
TGet(t) ==
    /\ Running
    /\ pc[t] = "idle"
    /\ \E e \in SourceYields(expired) \ {NULL} :
         /\ expired' = TakeEntry(expired, e)
         /\ local' = [local EXCEPT ![t] = [NoLocal EXCEPT !.region = e]]
    /\ pc' = [pc EXCEPT ![t] = "dec"]
    /\ UNCHANGED <<heapvars, obs>>
    /\ ConcFrame

\* Line 342: atomic_int_dec_and_test; on the zero transition the thread
\* enters recycle_region.
TDec(t) ==
    /\ Running
    /\ pc[t] = "dec"
    /\ LET r == local[t].region
           rel == release_reference(St, r)
       IN  /\ SetSt(rel.s)
           /\ pc' = [pc EXCEPT ![t] = IF rel.zero THEN "select" ELSE "idle"]
           /\ obs' = [obs EXCEPT ![r].decs = @ + 1,
                                 ![r].zero = @ + (IF rel.zero THEN 1 ELSE 0)]
           /\ local' = [local EXCEPT ![t] = IF rel.zero THEN @ ELSE NoLocal]
    /\ UNCHANGED expired
    /\ ConcFrame

\* Lines 81-187 of recycle_region.
TSelect(t) ==
    /\ Running
    /\ pc[t] = "select"
    /\ LET r == local[t].region
           sel == recycle_select(St, r, check_conditions)
       IN  /\ SetSt(sel.s)
           /\ pc' = [pc EXCEPT ![t] = IF sel.done THEN "idle" ELSE "pool"]
           /\ local' = [local EXCEPT ![t] =
                          IF sel.done THEN NoLocal
                          ELSE [region |-> r, legacy_pages |-> sel.legacy_pages,
                                n |-> sel.n]]
    /\ UNCHANGED <<expired, obs>>
    /\ ConcFrame

\* Lines 189-267 of recycle_region: pages are pooled or freed.
TPool(t) ==
    /\ Running
    /\ pc[t] = "pool"
    /\ LET r == local[t].region IN
         /\ SetSt(recycle_pool(St, r, local[t].legacy_pages, local[t].n))
         /\ obs' = [obs EXCEPT ![r].unsafe = @ \/ dc[r] # 0]
    /\ pc' = [pc EXCEPT ![t] = "anchor"]
    /\ UNCHANGED <<expired, local>>
    /\ ConcFrame

\* Lines 269-321 of recycle_region: firstPage, lastPage and the page count
\* are rewritten.
TAnchor(t) ==
    /\ Running
    /\ pc[t] = "anchor"
    /\ LET r == local[t].region IN
         /\ SetSt(recycle_reanchor(St, r))
         /\ obs' = [obs EXCEPT ![r].unsafe = @ \/ dc[r] # 0]
    /\ pc' = [pc EXCEPT ![t] = "idle"]
    /\ local' = [local EXCEPT ![t] = NoLocal]
    /\ UNCHANGED expired
    /\ ConcFrame

\* A thread acquires a reference to an initialised region: atomic_int_inc.
MaxAcquires == 1

TAcquire(r) ==
    /\ Running
    /\ number_of_region_pages[r] >= 1
    /\ obs[r].incs < MaxAcquires
    /\ SetSt([St EXCEPT !.dc[r] = atomic_int_inc(@)])
    /\ obs' = [obs EXCEPT ![r].incs = @ + 1, ![r].held = @ + 1]
    /\ UNCHANGED <<expired, pc, local>>
    /\ ConcFrame

\* A held descriptor expires and enters the source.
TDescriptorExpires(r) ==
    /\ Running
    /\ obs[r].held > 0
    /\ expired' = [expired EXCEPT ![r] = @ + 1]
    /\ obs' = [obs EXCEPT ![r].held = @ - 1]
    /\ UNCHANGED <<heapvars, pc, local>>
    /\ ConcFrame

NextConc ==
    \/ \E t \in Threads : TGet(t)
    \/ \E t \in Threads : TDec(t)
    \/ \E t \in Threads : TSelect(t)
    \/ \E t \in Threads : TPool(t)
    \/ \E t \in Threads : TAnchor(t)
    \/ \E r \in Regions : TAcquire(r)
    \/ \E r \in Regions : TDescriptorExpires(r)

SpecConc == InitConc /\ [][NextConc]_vars

\* ------------------------------------------- recycle_region called directly
\* recycle_region on its own, in the production build and in the checked
\* build.  A run starts from a heap of a program with several regions at
\* work: region 1 holds pages 1..k (none for k = 0), fresh or zombie, with no
\* descriptor alive, and the pool holds the next j pages, left there by the
\* other regions.  HeapWith also gives region 1 N descriptors, m of them in
\* the source.
HeapWith(k, zombie, j, N, m) ==
    /\ nextPage = [p \in Pages |-> IF p < k \/ (k < p /\ p < k + j) THEN p + 1 ELSE NULL]
    /\ used_memory = [p \in Pages |-> IF p <= k + j THEN 1 ELSE 0]
    /\ firstPage = [r \in Regions |-> IF r = 1 /\ k > 0 THEN 1 ELSE NULL]
    /\ lastPage = [r \in Regions |-> IF r = 1 THEN k ELSE NULL]
    /\ number_of_region_pages = [r \in Regions |-> IF r = 1 THEN k ELSE 0]
    /\ next_free_address =
         [r \in Regions |-> IF r = 1 /\ k > 0 THEN MemoryAddr(k) + 1 ELSE NULL]
    /\ last_address_in_last_page =
         [r \in Regions |-> IF r = 1 /\ k > 0
                            THEN MemoryAddr(k) + REGION_PAGE_PAYLOAD_SIZE - 1
                            ELSE NULL]
    /\ age = [r \in Regions |-> 0]
    /\ dc = [r \in Regions |-> IF r = 1 THEN N ELSE 0]
    /\ current_time = IF zombie THEN 1 ELSE 0
    /\ region_page_pool = IF j > 0 THEN k + 1 ELSE NULL
    /\ number_of_pooled_region_pages = j
    /\ os = {p \in Pages : p > k + j}
    /\ freed = <<>>
    /\ fault = FALSE
    /\ aborted = FALSE
    /\ expired = [r \in Regions |-> IF r = 1 THEN m ELSE 0]
    /\ hist = NoHist
    /\ pc = [t \in Threads |-> "idle"]
    /\ local = [t \in Threads |-> NoLocal]
    /\ obs = [r \in Regions |-> NoObs]
    /\ drain = [NoDrain EXCEPT !.dc0 = [r \in Regions |-> IF r = 1 THEN N ELSE 0],
                               !.src0 = [r \in Regions |-> IF r = 1 THEN m ELSE 0]]

DirectHeap(k, zombie, j) == HeapWith(k, zombie, j, 0, 0)

InitDirect ==
    /\ check_conditions \in BOOLEAN
    /\ \E k \in 0..MaxStartPages, zombie \in BOOLEAN,
          j \in 0..SCM_REGION_PAGE_FREELIST_SIZE :
         /\ k + j <= NPages
         \* in the first epoch no region has given up pages before region 1
         \* got its first one
         /\ (k = 0 /\ ~zombie) => j = 0
         /\ DirectHeap(k, zombie, j)

\* The contract of recycle_region: the region is initialised, or a zombie
\* without pages, and no descriptor refers to it.
WithinContract(r) ==
    /\ r # NULL
    /\ dc[r] = 0
    /\ firstPage[r] # NULL \/ age[r] # current_time

\* One call of recycle_region, start to return (or to exit).  The
\* production build is called within the contract only; the checked build
\* is handed any region, and NULL.
RecycleRegion(r) ==
    /\ Running
    /\ check_conditions \/ WithinContract(r)
    /\ LET s1 == recycle_region(Env, r, check_conditions)
           o == PageOrder(s1)
       IN  /\ SetSt(Rename(o, s1))
           /\ hist' = [op |-> "recycle", e |-> r, pre |-> Rename(o, St)]
    /\ UNCHANGED expired
    /\ SeqFrame

NextDirect ==
    \/ \E r \in Regions : CreateRegion(r)
    \/ \E r \in Regions : AppendPage(r)
    \/ \E r \in Regions : Allocate(r)
    \/ AdvanceEpoch
    \/ \E r \in Regions : Acquire(r)
    \/ \E r \in Regions \cup {NULL} : RecycleRegion(r)

SpecDirect == InitDirect /\ [][NextDirect]_vars

\* ------------------------------------------------- emptying the source
\* A caller repeats the driver until it returns 0.  The source holds m of the
\* N descriptors of region 1 when the caller starts and gets no new entry.
InitDrain ==
    /\ check_conditions \in BOOLEAN
    /\ \E k \in 1..MaxStartPages, zombie \in BOOLEAN,
          j \in 0..SCM_REGION_PAGE_FREELIST_SIZE, N \in 0..MaxDc :
         \E m \in 0..N :
            /\ k + j <= NPages
            /\ HeapWith(k, zombie, j, N, m)

\* One iteration of the caller's loop: a call of the driver and the test of
\* its result.
DrainCall ==
    /\ Running
    /\ ~drain.done
    /\ \E e \in SourceYields(expired) :
         \E res \in {expire_reg_descriptor_if_exists(Env, e, check_conditions)} :
             /\ SetSt(res.s)
             /\ expired' = TakeEntry(expired, e)
             /\ drain' = [drain EXCEPT
                            !.ones = @ + (IF res.ret = 1 THEN 1 ELSE 0),
                            !.zeros = @ + (IF res.ret = 0 THEN 1 ELSE 0),
                            !.recycles = IF res.recycled
                                         THEN [@ EXCEPT ![e] = @ + 1]
                                         ELSE @,
                            !.done = res.ret = 0]
    /\ UNCHANGED <<check_conditions, hist, pc, local, obs>>

NextDrain == DrainCall

\* The caller is a sequential loop: while it has not seen 0 it calls again.
SpecDrain == InitDrain /\ [][NextDrain]_vars /\ WF_vars(DrainCall)

\* ------------------------------------------------------------ properties
Min(a, b) == IF a <= b THEN a ELSE b
Max(a, b) == IF a >= b THEN a ELSE b

\* The driver call just made, its region and the state it started from.
Called == hist.op = "expire"
Recycled == Called /\ hist.recycled
PreFresh == hist.pre.age[hist.e] = hist.pre.current_time
PrePages == hist.pre.number_of_region_pages[hist.e]
PrePooled == hist.pre.number_of_pooled_region_pages
PrePool == Chain(hist.pre.nextPage, hist.pre.region_page_pool)
PreChain == Chain(hist.pre.nextPage, hist.pre.firstPage[hist.e])
Pool == Chain(nextPage, region_page_pool)
RegionChain(r) == Chain(nextPage, firstPage[r])

\* The shape every region keeps (section 3 of the design).
RegionShape(r) ==
    /\ number_of_region_pages[r] = Len(RegionChain(r))
    /\ number_of_region_pages[r] = 0 <=> (firstPage[r] = NULL /\ lastPage[r] = NULL)
    /\ number_of_region_pages[r] = 1 <=> (firstPage[r] = lastPage[r] /\ firstPage[r] # NULL)
    /\ lastPage[r] # NULL =>
         /\ nextPage[lastPage[r]] = NULL
         /\ lastPage[r] \in SeqSet(RegionChain(r))

\* C1: no step of recycle_region pools or frees a page of a region, or
\* rewrites its firstPage, lastPage or page count, while the region's dc
\* is not 0.
C1_MutationOnlyAtZero == \A r \in Regions : ~obs[r].unsafe

\* C2: N releases of a region with dc = N and no acquisition in between:
\* dc falls by one per decrement and never below 0, at most one decrement
\* sees the zero transition, and after the N-th exactly one has, with dc 0.
C2_OneZeroTransition ==
    \A r \in Regions :
        obs[r].incs = 0 =>
            /\ dc[r] >= 0
            /\ dc[r] = obs[r].init - obs[r].decs
            /\ obs[r].zero <= 1
            /\ obs[r].zero = 1 <=> (obs[r].init >= 1 /\ obs[r].decs = obs[r].init)

C2_Witness ==
    /\ obs[1].init = MaxDc /\ obs[1].incs = 0
    /\ obs[1].decs = obs[1].init
    /\ obs[1].zero = 1
    /\ \A t \in Threads : pc[t] = "idle"

C5_PoolBounded ==
    Recycled => number_of_pooled_region_pages <= SCM_REGION_PAGE_FREELIST_SIZE

C5_Witness ==
    /\ Recycled
    /\ Len(freed) > 0
    /\ number_of_pooled_region_pages = SCM_REGION_PAGE_FREELIST_SIZE

\* C6: recycling a fresh region of exactly one page leaves the region's
\* shape and the whole pool as they were, frees nothing and ends with dc 0.
C6_FreshSinglePage ==
    (Recycled /\ PreFresh /\ PrePages = 1) =>
        /\ number_of_region_pages[hist.e] = 1
        /\ firstPage[hist.e] = hist.pre.firstPage[hist.e]
        /\ lastPage[hist.e] = hist.pre.lastPage[hist.e]
        /\ firstPage[hist.e] = lastPage[hist.e]
        /\ region_page_pool = hist.pre.region_page_pool
        /\ Pool = PrePool
        /\ number_of_pooled_region_pages = PrePooled
        /\ freed = <<>>
        /\ dc[hist.e] = 0

C6_Witness ==
    /\ Recycled /\ PreFresh /\ PrePages = 1
    /\ PrePooled > 0

\* C7: with an empty source the driver returns 0, does not recycle and
\* leaves every region, every page, the pool and the source as they were.
C7_EmptySource ==
    (Called /\ hist.e = NULL) =>
        /\ hist.ret = 0
        /\ ~hist.recycled
        /\ St = [hist.pre EXCEPT !.freed = <<>>]
        /\ expired = hist.src

C7_Witness ==
    /\ Called /\ hist.e = NULL
    /\ \E r \in Regions : dc[r] > 0
    /\ number_of_pooled_region_pages > 0

\* What one region owns: its fields and the pages of its chain.
RegionView(s, r) ==
    [firstPage |-> s.firstPage[r], lastPage |-> s.lastPage[r],
     number_of_region_pages |-> s.number_of_region_pages[r],
     next_free_address |-> s.next_free_address[r],
     last_address_in_last_page |-> s.last_address_in_last_page[r],
     age |-> s.age[r], dc |-> s.dc[r],
     chain |-> Chain(s.nextPage, s.firstPage[r]),
     used |-> [p \in SeqSet(Chain(s.nextPage, s.firstPage[r])) |-> s.used_memory[p]]]

C9_RegionShape == \A r \in Regions : RegionShape(r)

C9_Witness ==
    /\ Recycled /\ PreFresh /\ PrePages > 2
    /\ number_of_region_pages[hist.e] = 1
    /\ number_of_pooled_region_pages > 0

\* C10: wherever recycle_region resets the bound of a retained page, the
\* bound is the payload address + REGION_PAGE_PAYLOAD_SIZE - 1.
C10_BoundExact ==
    (Recycled /\ PreFresh) =>
        last_address_in_last_page[hist.e] =
            MemoryAddr(firstPage[hist.e]) + REGION_PAGE_PAYLOAD_SIZE - 1

\* C11: no update of dc is lost: dc is its initial value plus the completed
\* increments minus the completed decrements, whatever recycle_region does
\* in between.
C11_NoLostUpdate ==
    \A r \in Regions : dc[r] = obs[r].init + obs[r].incs - obs[r].decs

\* The direct call of recycle_region just made, and whether it came back.
Entered == hist.op = "recycle"
Returned == Entered /\ ~aborted /\ ~fault

C13_EmptyZombie ==
    (/\ Entered /\ hist.e # NULL
     /\ ~PreFresh
     /\ hist.pre.firstPage[hist.e] = NULL
     /\ hist.pre.lastPage[hist.e] = NULL
     /\ PrePages = 0
     /\ hist.pre.dc[hist.e] = 0) =>
        /\ ~aborted
        /\ number_of_region_pages[hist.e] = 0
        /\ firstPage[hist.e] = NULL
        /\ lastPage[hist.e] = NULL
        /\ dc[hist.e] = 0
        /\ Pool = PrePool
        /\ number_of_pooled_region_pages = PrePooled

\* The call was within the contract of recycle_region.
PreValid ==
    /\ hist.e # NULL
    /\ hist.pre.dc[hist.e] = 0
    /\ hist.pre.firstPage[hist.e] # NULL \/ ~PreFresh

\* The chain the call had to recycle: all pages of a zombie, all but the
\* first of a fresh region.
Recyclable == IF PreFresh /\ PreChain # <<>> THEN Tail(PreChain) ELSE PreChain
FreedCount ==
    Max(0, Len(PrePool) + Len(Recyclable) - SCM_REGION_PAGE_FREELIST_SIZE)

C15_FreshReady ==
    (Returned /\ PreValid /\ PreFresh) =>
        /\ number_of_region_pages[hist.e] = 1
        /\ lastPage[hist.e] = firstPage[hist.e]
        /\ firstPage[hist.e] # NULL
        /\ nextPage[firstPage[hist.e]] = NULL
        /\ used_memory[firstPage[hist.e]] = 0
        /\ next_free_address[hist.e] = MemoryAddr(firstPage[hist.e])

\* C16: a caller that repeats the driver on a source of m entries stops,
\* after exactly m calls that returned 1 and one call that returned 0; then
\* a region whose descriptors were all in the source has dc 0 and was
\* recycled once, and any other region has dc lowered by the number of its
\* entries and was not recycled.
DrainResult ==
    /\ drain.ones = SumTo(drain.src0, NRegions)
    /\ drain.zeros = 1
    /\ \A r \in Regions :
         IF drain.dc0[r] >= 1 /\ drain.src0[r] = drain.dc0[r]
         THEN dc[r] = 0 /\ drain.recycles[r] = 1
         ELSE dc[r] = drain.dc0[r] - drain.src0[r] /\ drain.recycles[r] = 0

C16_DrainTerminates ==
    /\ <>drain.done
    /\ [](drain.done => DrainResult)
    /\ [](drain.zeros >= 1 => drain.done)

C16_Witness ==
    /\ drain.done
    /\ drain.ones = MaxDc
    /\ drain.zeros = 1
    /\ drain.recycles[1] = 1
    /\ Len(freed) = 0
    /\ number_of_pooled_region_pages > drain.ones - MaxDc

\* C17: number_of_pooled_region_pages is the length of the list reachable
\* from region_page_pool, before and after every call of recycle_region,
\* whichever path the call took.
C17_CountIsLength == number_of_pooled_region_pages = Len(Pool)

\* The overflow path on which every recyclable page is freed.
C17_Witness ==
    /\ Returned /\ PreValid
    /\ PrePooled = SCM_REGION_PAGE_FREELIST_SIZE
    /\ Len(Recyclable) >= 1
    /\ Len(freed) = Len(Recyclable)
    /\ Len(Pool) = SCM_REGION_PAGE_FREELIST_SIZE

\* How often page p occurs in the list q, and in how many places it is held:
\* the chains of the regions, the pool, the underlying allocator.
Occurrences(q, p) == Cardinality({i \in 1..Len(q) : q[i] = p})
Holders(p) ==
    SumTo([r \in Regions |-> Occurrences(RegionChain(r), p)], NRegions)
        + Occurrences(Pool, p)
        + (IF p \in os THEN 1 ELSE 0)

\* C18: every page is held in exactly one place: once in the chain of one
\* region, once in the pool, or by the underlying allocator (freed); no page
\* is handed to free twice and no freed page is dereferenced.
C18_PagePartition ==
    /\ \A p \in Pages : Holders(p) = 1
    /\ \A p \in Pages : Occurrences(freed, p) <= 1
    /\ SeqSet(freed) \subseteq os
    /\ ~fault

C18_Witness ==
    /\ Returned /\ PreValid /\ PreFresh
    /\ Len(freed) >= 1
    /\ number_of_region_pages[hist.e] = 1
    /\ Len(Pool) >= 1

\* The page an address lies in (NULL lies in none).
PageOf(a) == a \div PageStride

\* C19: when recycle_region returns, neither firstPage nor lastPage, nor the
\* cursor next_free_address, nor the bound last_address_in_last_page of the
\* region refers to a page that is in the pool or was freed.
C19_NoDanglingField ==
    (Returned /\ PreValid) =>
        \A p \in SeqSet(Pool) \cup os :
            /\ firstPage[hist.e] # p
            /\ lastPage[hist.e] # p
            /\ PageOf(next_free_address[hist.e]) # p
            /\ PageOf(last_address_in_last_page[hist.e]) # p

====
